---- MODULE Spec2Model ----
(***************************************************************************)
(* Model of packages/fluentui/accessibility/src/behaviors/Tree/            *)
(* treeItemBehavior.ts: the pure mapping from TreeItemBehaviorProps to the *)
(* accessibility definition (root attributes, root key actions, child      *)
(* behaviors) of a tree item.                                              *)
(*                                                                         *)
(* JavaScript values are modelled as tagged records so that an absent      *)
(* (undefined) field, the boolean false and a number stay distinct and     *)
(* truthiness is computed the way the `&&`, `||`, `!` and `?:` operators   *)
(* of the source compute it.  Objects are functions from property names to *)
(* values; object spread is a right-biased merge.                          *)
(***************************************************************************)
EXTENDS Integers, Sequences, FiniteSets, TLC

VARIABLES props, NODE_ENV, pc, definition

vars == <<props, NODE_ENV, pc, definition>>

(* Largest number drawn for the numeric props level, index and treeSize. *)
MaxNum == 2

---------------------------------------------------------------------------
(* JavaScript values *)

Undefined == [type |-> "undefined"]

Bool(b) == [type |-> "boolean", val |-> b]

Num(n) == [type |-> "number", val |-> n]

Str(s) == [type |-> "string", val |-> s]

(* ToBoolean, as applied by &&, ||, ! and ?: *)
Truthy(v) ==
  CASE v.type = "undefined" -> FALSE
    [] v.type = "boolean" -> v.val
    [] v.type = "number" -> v.val # 0
    [] v.type = "string" -> v.val # ""

(* a || b *)
Or(a, b) == IF Truthy(a) THEN a ELSE b

(* a && b *)
And(a, b) == IF Truthy(a) THEN b ELSE a

EmptyObject == <<>>

(* { ...a, ...b }: properties of b override those of a *)
Merge(a, b) == [k \in (DOMAIN a) \cup (DOMAIN b) |-> IF k \in DOMAIN b THEN b[k] ELSE a[k]]

(* ...(cond && obj): spreading a falsy value adds no property *)
SpreadIf(cond, obj) == IF cond THEN obj ELSE EmptyObject

---------------------------------------------------------------------------
(* Imported names *)

Enter == "Enter"

SpacebarKey == "Spacebar"

ArrowLeft == "ArrowLeft"

ArrowRight == "ArrowRight"

Asterisk == "*"

IS_FOCUSABLE_ATTRIBUTE == "data-is-focusable"

treeTitleBehavior == "treeTitleBehavior"

KeyCodes == {Enter, SpacebarKey, ArrowLeft, ArrowRight, Asterisk}

---------------------------------------------------------------------------
(* Inputs *)

OptBool == {Undefined, Bool(TRUE), Bool(FALSE)}

OptNum == {Undefined} \cup {Num(n) : n \in 1..MaxNum}

TreeItemBehaviorProps ==
  [expanded : OptBool, level : OptNum, index : OptNum, hasSubtree : OptBool,
   treeSize : OptNum, selectable : OptBool, selected : OptBool]

Environments == {"production", "development"}

---------------------------------------------------------------------------
(* treeItemBehavior *)

isSubtreeExpanded_IgnoresHasSubtree(p) == Truthy(p.expanded)

isSubtreeExpanded_IgnoresExpanded(p) == Truthy(p.hasSubtree)

isSubtreeExpanded_AbsentIsOpen(p) == Truthy(p.hasSubtree) /\ p.expanded # Bool(FALSE)

isSubtreeExpanded(p) == Truthy(And(p.hasSubtree, p.expanded))

KeyAction(codes) == [keyCombinations |-> [i \in DOMAIN codes |-> [keyCode |-> codes[i]]]]

ariaSelected_Raw(p) == p.selected

ariaSelected(p) == IF Truthy(p.selectable) THEN Or(p.selected, Bool(FALSE)) ELSE Undefined

subtreeAttributes_NoTabIndex(p) ==
  ("aria-expanded" :> p.expanded) @@
  ("aria-selected" :> ariaSelected(p)) @@
  (IS_FOCUSABLE_ATTRIBUTE :> Bool(TRUE)) @@
  ("role" :> Str("treeitem")) @@
  ("aria-setsize" :> p.treeSize) @@
  ("aria-posinset" :> p.index) @@
  ("aria-level" :> p.level)

subtreeAttributes(p) ==
  ("aria-expanded" :> p.expanded) @@
  ("aria-selected" :> ariaSelected(p)) @@
  ("tabIndex" :> Num(-1)) @@
  (IS_FOCUSABLE_ATTRIBUTE :> Bool(TRUE)) @@
  ("role" :> Str("treeitem")) @@
  ("aria-setsize" :> p.treeSize) @@
  ("aria-posinset" :> p.index) @@
  ("aria-level" :> p.level)

rootAttributes(p) ==
  Merge("role" :> Str("none"), SpreadIf(Truthy(p.hasSubtree), subtreeAttributes(p)))

openedSubtreeActions_NoFocusFirstChild ==
  ("collapse" :> KeyAction(<<ArrowLeft>>)) @@
  ("focusParent" :> KeyAction(<<ArrowLeft>>))

openedSubtreeActions ==
  ("collapse" :> KeyAction(<<ArrowLeft>>)) @@
  ("focusFirstChild" :> KeyAction(<<ArrowRight>>)) @@
  ("focusParent" :> KeyAction(<<ArrowLeft>>))

closedSubtreeActions ==
  ("expand" :> KeyAction(<<ArrowRight>>)) @@
  ("focusParent" :> KeyAction(<<ArrowLeft>>))

hasClosedSubtree_IgnoresOpened(p) == Truthy(p.hasSubtree)

hasClosedSubtree(p) == Truthy(And(Bool(~isSubtreeExpanded(p)), p.hasSubtree))

selectableActions_Swapped(p) ==
  ("performClick" :>
     KeyAction(IF Truthy(p.hasSubtree) THEN <<SpacebarKey>> ELSE <<Enter>>)) @@
  ("performSelection" :> KeyAction(<<SpacebarKey>>))

selectableActions(p) ==
  ("performClick" :>
     KeyAction(IF Truthy(p.hasSubtree) THEN <<Enter>> ELSE <<SpacebarKey>>)) @@
  ("performSelection" :> KeyAction(<<SpacebarKey>>))

rootKeyActions(p) ==
  Merge(Merge(Merge(Merge(
    "performClick" :> KeyAction(<<Enter, SpacebarKey>>),
    SpreadIf(isSubtreeExpanded(p), openedSubtreeActions)),
    SpreadIf(hasClosedSubtree(p), closedSubtreeActions)),
    "expandSiblings" :> KeyAction(<<Asterisk>>)),
    SpreadIf(Truthy(p.selectable), selectableActions(p)))

(* if (process.env.NODE_ENV !== 'production' && !props.hasSubtree) *)
withDiagnosticClass(root, p, env) ==
  IF env # "production" /\ ~Truthy(p.hasSubtree)
    THEN Merge(root, "data-aa-class" :> Str("SingleTreeItem"))
    ELSE root

treeItemBehavior(p, env) ==
  [attributes |-> [root |-> withDiagnosticClass(rootAttributes(p), p, env)],
   keyActions |-> [root |-> rootKeyActions(p)],
   childBehaviors |-> [title |-> treeTitleBehavior]]

---------------------------------------------------------------------------
(* State machine: the host supplies props, the behavior is applied once. *)

Init ==
  /\ props \in TreeItemBehaviorProps
  /\ NODE_ENV \in Environments
  /\ pc = "call"
  /\ definition = <<>>

Call ==
  /\ pc = "call"
  /\ definition' = treeItemBehavior(props, NODE_ENV)
  /\ pc' = "returned"
  /\ UNCHANGED <<props, NODE_ENV>>

Next == Call

Spec == Init /\ [][Next]_vars

---------------------------------------------------------------------------
(* Reading the returned definition *)

Returned == pc = "returned"

attrs == definition.attributes.root

actions == definition.keyActions.root

ActionNames == DOMAIN actions

KeysOf(binding) == {binding.keyCombinations[i].keyCode : i \in DOMAIN binding.keyCombinations}

BoundTo(name, keys) == name \in ActionNames /\ KeysOf(actions[name]) = keys

ActionsOn(key) == {a \in ActionNames : key \in KeysOf(actions[a])}

IsTrue(v) == v = Bool(TRUE)

---------------------------------------------------------------------------
(* Properties of the returned definition *)

NoSubtreeActions == ActionNames \cap {"expand", "collapse", "focusParent", "focusFirstChild"} = {}

LeafAttributes ==
  IF NODE_ENV # "production"
    THEN [k \in {"role", "data-aa-class"} |->
            IF k = "role" THEN Str("none") ELSE Str("SingleTreeItem")]
    ELSE [k \in {"role"} |-> Str("none")]

(* C1, as stated: for every props with hasSubtree = false the root          *)
(* attributes are { role: 'none' } (plus data-aa-class outside production), *)
(* performClick is bound to {Enter, Spacebar}, expandSiblings to '*', and   *)
(* there is no expand, collapse, focusParent or focusFirstChild entry.      *)
C1_LeafAlwaysEnterAndSpacebar ==
  (Returned /\ props.hasSubtree = Bool(FALSE)) =>
    /\ attrs = LeafAttributes
    /\ BoundTo("performClick", {Enter, SpacebarKey})
    /\ BoundTo("expandSiblings", {Asterisk})
    /\ NoSubtreeActions

(* C1, amended: as above, except that performClick is bound to {Enter,      *)
(* Spacebar} only when selectable is not true; when selectable is true it   *)
(* is bound to Spacebar only.                                               *)
C1_Leaf ==
  (Returned /\ props.hasSubtree = Bool(FALSE)) =>
    /\ attrs = LeafAttributes
    /\ BoundTo("performClick",
               IF IsTrue(props.selectable) THEN {SpacebarKey} ELSE {Enter, SpacebarKey})
    /\ BoundTo("expandSiblings", {Asterisk})
    /\ NoSubtreeActions

C1_Witness ==
  /\ Returned
  /\ props.hasSubtree = Bool(FALSE)
  /\ IsTrue(props.expanded)
  /\ IsTrue(props.selectable)
  /\ NODE_ENV = "development"
  /\ "data-aa-class" \in DOMAIN attrs
  /\ BoundTo("performClick", {SpacebarKey})
  /\ BoundTo("expandSiblings", {Asterisk})

(* C2: with hasSubtree = true and expanded = true the root attributes       *)
(* include role = 'treeitem' and aria-expanded = true, and the root key     *)
(* actions include collapse on ArrowLeft, focusFirstChild on ArrowRight and *)
(* focusParent on ArrowLeft, and do not include expand.                     *)
C2_OpenedSubtree ==
  (Returned /\ IsTrue(props.hasSubtree) /\ IsTrue(props.expanded)) =>
    /\ "role" \in DOMAIN attrs /\ attrs["role"] = Str("treeitem")
    /\ "aria-expanded" \in DOMAIN attrs /\ attrs["aria-expanded"] = Bool(TRUE)
    /\ BoundTo("collapse", {ArrowLeft})
    /\ BoundTo("focusFirstChild", {ArrowRight})
    /\ BoundTo("focusParent", {ArrowLeft})
    /\ "expand" \notin ActionNames

C2_Witness ==
  /\ Returned
  /\ IsTrue(props.hasSubtree)
  /\ IsTrue(props.expanded)
  /\ "collapse" \in ActionNames
  /\ attrs["aria-expanded"] = Bool(TRUE)

(* C3: with hasSubtree = true and expanded = false the root key actions     *)
(* include expand on ArrowRight and focusParent on ArrowLeft, and include   *)
(* neither collapse nor focusFirstChild.                                    *)
C3_ClosedSubtree ==
  (Returned /\ IsTrue(props.hasSubtree) /\ props.expanded = Bool(FALSE)) =>
    /\ BoundTo("expand", {ArrowRight})
    /\ BoundTo("focusParent", {ArrowLeft})
    /\ "collapse" \notin ActionNames
    /\ "focusFirstChild" \notin ActionNames

C3_Witness ==
  /\ Returned
  /\ IsTrue(props.hasSubtree)
  /\ props.expanded = Bool(FALSE)
  /\ "expand" \in ActionNames

C5_SelectableLeaf ==
  (Returned /\ IsTrue(props.selectable) /\ ~IsTrue(props.hasSubtree)) =>
    /\ BoundTo("performClick", {SpacebarKey})
    /\ "performClick" \notin ActionsOn(Enter)

C5_Witness ==
  /\ Returned
  /\ IsTrue(props.selectable)
  /\ props.hasSubtree = Undefined
  /\ BoundTo("performClick", {SpacebarKey})

(* C6: in every case other than 'selectable and no subtree', the            *)
(* performClick binding contains both Enter and Spacebar.                   *)
C6_OtherCasesEnterAndSpacebar ==
  (Returned /\ ~(IsTrue(props.selectable) /\ ~IsTrue(props.hasSubtree))) =>
    /\ "performClick" \in ActionNames
    /\ {Enter, SpacebarKey} \subseteq KeysOf(actions["performClick"])

(* C7: whenever the item has an opened subtree (hasSubtree = true and       *)
(* expanded = true), performSelection is bound to Spacebar on root.         *)
C7_OpenedSubtreePerformSelection ==
  (Returned /\ IsTrue(props.hasSubtree) /\ IsTrue(props.expanded)) =>
    BoundTo("performSelection", {SpacebarKey})

SubtreeAttributeNames ==
  {"tabIndex", IS_FOCUSABLE_ATTRIBUTE, "aria-expanded", "aria-selected",
   "aria-setsize", "aria-posinset", "aria-level"}

ExpectedSubtreeAttributes ==
  [k \in SubtreeAttributeNames \cup {"role"} |->
     CASE k = "role" -> Str("treeitem")
       [] k = "tabIndex" -> Num(-1)
       [] k = IS_FOCUSABLE_ATTRIBUTE -> Bool(TRUE)
       [] k = "aria-expanded" -> props.expanded
       [] k = "aria-setsize" -> props.treeSize
       [] k = "aria-posinset" -> props.index
       [] k = "aria-level" -> props.level
       [] k = "aria-selected" ->
            IF IsTrue(props.selectable)
              THEN (IF IsTrue(props.selected) THEN Bool(TRUE) ELSE Bool(FALSE))
              ELSE Undefined]

(* C8: with hasSubtree = true the root attributes are exactly role =        *)
(* 'treeitem', tabIndex = -1, the focusability marker = true, aria-expanded *)
(* = expanded, aria-setsize = treeSize, aria-posinset = index, aria-level = *)
(* level and aria-selected = (selected or false) when selectable is true,   *)
(* undefined otherwise; with hasSubtree not true none of those attributes   *)
(* other than role is set, even if selectable and selected are true.        *)
C8_RootAttributes ==
  Returned =>
    IF IsTrue(props.hasSubtree)
      THEN attrs = ExpectedSubtreeAttributes
      ELSE (DOMAIN attrs) \cap SubtreeAttributeNames = {}

C8_Witness ==
  /\ Returned
  /\ IsTrue(props.hasSubtree)
  /\ ~IsTrue(props.selectable)
  /\ IsTrue(props.selected)
  /\ props.treeSize = Num(MaxNum)
  /\ props.index = Num(1)
  /\ attrs["aria-selected"] = Undefined
  /\ attrs["tabIndex"] = Num(-1)

BooleanProps == {"hasSubtree", "expanded", "selectable"}

(* props with every absent field of S replaced by false *)
AbsentAsFalse(p, S) ==
  [f \in DOMAIN p |-> IF f \in S /\ p[f] = Undefined THEN Bool(FALSE) ELSE p[f]]

(* C9: replacing an absent hasSubtree, expanded or selectable by false      *)
(* yields the same root key actions, the same set of root attribute names   *)
(* and the same role; hasSubtree = true with expanded absent yields the     *)
(* closed-subtree bindings.                                                 *)
C9_AbsentBehavesAsFalse ==
  Returned =>
    /\ \A S \in SUBSET BooleanProps :
         LET other == treeItemBehavior(AbsentAsFalse(props, S), NODE_ENV) IN
           /\ other.keyActions.root = actions
           /\ DOMAIN other.attributes.root = DOMAIN attrs
           /\ other.attributes.root["role"] = attrs["role"]
    /\ (IsTrue(props.hasSubtree) /\ props.expanded = Undefined) =>
         /\ BoundTo("expand", {ArrowRight})
         /\ BoundTo("focusParent", {ArrowLeft})
         /\ "collapse" \notin ActionNames
         /\ "focusFirstChild" \notin ActionNames

C9_Witness ==
  /\ Returned
  /\ IsTrue(props.hasSubtree)
  /\ props.expanded = Undefined
  /\ props.selectable = Undefined
  /\ "expand" \in ActionNames
  /\ "performSelection" \notin ActionNames

MultiplyBound(key) == Cardinality(ActionsOn(key)) > 1

(* C10, as stated: the only key bound to more than one root action is       *)
(* ArrowLeft (to collapse and focusParent, and only when hasSubtree and     *)
(* expanded are true); Enter, Spacebar, ArrowRight and '*' are bound to at  *)
(* most one root action each; expand and collapse are never both present.   *)
C10_OnlyArrowLeftShared ==
  Returned =>
    /\ \A key \in KeyCodes :
         MultiplyBound(key) =>
           /\ key = ArrowLeft
           /\ ActionsOn(key) = {"collapse", "focusParent"}
           /\ IsTrue(props.hasSubtree) /\ IsTrue(props.expanded)
    /\ ~({"expand", "collapse"} \subseteq ActionNames)

(* C10, amended: the keys bound to more than one root action are ArrowLeft  *)
(* (to collapse and focusParent, only when hasSubtree and expanded are      *)
(* true) and Spacebar (to performClick and performSelection, only when      *)
(* selectable is true and hasSubtree is not true); Enter, ArrowRight and    *)
(* '*' are bound to at most one root action each; expand and collapse are   *)
(* never both present.                                                      *)
C10_SharedKeys ==
  Returned =>
    /\ \A key \in KeyCodes :
         MultiplyBound(key) =>
           \/ /\ key = ArrowLeft
              /\ ActionsOn(key) = {"collapse", "focusParent"}
              /\ IsTrue(props.hasSubtree) /\ IsTrue(props.expanded)
           \/ /\ key = SpacebarKey
              /\ ActionsOn(key) = {"performClick", "performSelection"}
              /\ IsTrue(props.selectable) /\ ~IsTrue(props.hasSubtree)
    /\ ~({"expand", "collapse"} \subseteq ActionNames)

C10_Witness ==
  /\ Returned
  /\ IsTrue(props.hasSubtree)
  /\ IsTrue(props.expanded)
  /\ IsTrue(props.selectable)
  /\ ActionsOn(ArrowLeft) = {"collapse", "focusParent"}
  /\ ActionsOn(SpacebarKey) = {"performSelection"}

====
